---- MODULE Spec2Model ----
(***************************************************************************)
(* Token lifecycle of the webhook protector (src/server.js): the in-memory *)
(* tokenStore and blacklistedTokens, the verifyToken middleware, the       *)
(* /auth/token, /auth/refresh, /auth/revoke and /webhook/discord routes    *)
(* and the periodic cleanupExpiredTokens sweep.                            *)
(*                                                                         *)
(* Node runs every synchronous callback to completion: verifyToken calls   *)
(* next() synchronously, so the middleware and the /auth/refresh or        *)
(* /auth/revoke handler behind it are one step, and so is one sweep.       *)
(* Times are milliseconds since the process started.                       *)
(***************************************************************************)
EXTENDS Integers, FiniteSets, Sequences, TLC

VARIABLES
    tokenStore,         \* Map<token, {userId, hwid, expires, createdAt}>
    blacklistedTokens,  \* Set<token>
    now,                \* Date.now()
    minted,             \* history: every token generated so far, with the
                        \* token it was refreshed from and its expiry
    effects,            \* history: per token, the refresh and revoke requests
                        \* carrying it that passed the gate
    res                 \* the last request handled and its response

vars == <<tokenStore, blacklistedTokens, now, minted, effects, res>>

(* ------------------------------ bounds -------------------------------- *)

\* Number of distinct token strings the generator can return in a run.
MaxTokens == 2
\* The clock is observed at the instants number 0 .. MaxInstant (see Instant).
MaxInstant == 3

(* ----------------------------- constants ------------------------------ *)

TOKEN_EXPIRY == 3600000

Tokens == 1 .. MaxTokens
\* A request without an "Authorization: Bearer ..." header.
NoBearer == 0
Presented == Tokens \cup {NoBearer}

\* The instants 0, 1, TOKEN_EXPIRY, TOKEN_EXPIRY + 1, 2 * TOKEN_EXPIRY, ...:
\* both sides of every expiry boundary of a record created at one of them.
Instant(i) == (i \div 2) * TOKEN_EXPIRY + (i % 2)
Instants == { Instant(i) : i \in 0 .. MaxInstant }

\* JavaScript values of the request body fields.
JsUndefined == "<undefined>"
JsNull == "<null>"
UserIdInputs == {"user123", "", JsUndefined}
HwidInputs == {"hw1", "", JsUndefined}

\* Variant: only a missing field counts as falsy.
TruthyIfDefined(v) == v \notin {JsUndefined, JsNull}

\* JavaScript truthiness of a body field (!v is its negation).
Truthy(v) == v \notin {"", JsUndefined, JsNull}

\* a || b
JsOr(a, b) == IF Truthy(a) THEN a ELSE b

(* ------------------------------ helpers ------------------------------- *)

\* Map.prototype.delete
MapDelete(store, token) == [k \in DOMAIN store \ {token} |-> store[k]]

\* Map.prototype.set
MapSet(store, token, data) ==
    [k \in DOMAIN store \cup {token} |-> IF k = token THEN data ELSE store[k]]

\* The last request handled and the response it got; at is the clock value
\* verifyToken read for it, forwarded whether axios.post sent the payload.
NoRes ==
    [op |-> "none", status |-> 0, outcome |-> "-", token |-> NoBearer,
     newToken |-> NoBearer, userId |-> JsUndefined, hwid |-> JsUndefined,
     at |-> 0, cleaned |-> 0, forwarded |-> FALSE]

NoEffects == [refreshed |-> 0, revoked |-> 0]

(* --------------------------- verifyToken ------------------------------ *)

\* Variant: the store is consulted before the blacklist.
verifyTokenStoreFirst(store, blacklist, clock, token) ==
    IF token = NoBearer THEN "NoBearer"
    ELSE IF token \in DOMAIN store
         THEN (IF clock > store[token].expires THEN "Expired" ELSE "Valid")
    ELSE IF token \in blacklist THEN "Revoked"
    ELSE "Unknown"

\* Variant: the expiry of the record is not looked at.
verifyTokenNoExpiry(store, blacklist, clock, token) ==
    IF token = NoBearer THEN "NoBearer"
    ELSE IF token \in blacklist THEN "Revoked"
    ELSE IF token \notin DOMAIN store THEN "Unknown"
    ELSE "Valid"

\* Variant: the expiry comparison is inverted.
verifyTokenInverted(store, blacklist, clock, token) ==
    IF token = NoBearer THEN "NoBearer"
    ELSE IF token \in blacklist THEN "Revoked"
    ELSE IF token \notin DOMAIN store THEN "Unknown"
    ELSE IF clock < store[token].expires THEN "Expired"
    ELSE "Valid"

\* Variant: the gate takes a record to be expired from its expiry instant on.
verifyTokenAtExpiry(store, blacklist, clock, token) ==
    IF token = NoBearer THEN "NoBearer"
    ELSE IF token \in blacklist THEN "Revoked"
    ELSE IF token \notin DOMAIN store THEN "Unknown"
    ELSE IF clock >= store[token].expires THEN "Expired"
    ELSE "Valid"

\* The decision of the middleware for a presented token at clock value clock.
verifyTokenOutcome(store, blacklist, clock, token) ==
    IF token = NoBearer THEN "NoBearer"
    ELSE IF token \in blacklist THEN "Revoked"
    ELSE IF token \notin DOMAIN store THEN "Unknown"
    ELSE IF clock > store[token].expires THEN "Expired"
    ELSE "Valid"

\* Variant: the record is deleted whenever the token is found in the store.
verifyTokenStoreDeletesFound(store, blacklist, clock, token) ==
    IF verifyTokenOutcome(store, blacklist, clock, token) \in {"Expired", "Valid"}
    THEN MapDelete(store, token)
    ELSE store

\* The store the middleware leaves behind (an expired record is deleted).
verifyTokenStore(store, blacklist, clock, token) ==
    IF verifyTokenOutcome(store, blacklist, clock, token) = "Expired"
    THEN MapDelete(store, token)
    ELSE store

\* The outcome of the gate in the current state.
check(token) == verifyTokenOutcome(tokenStore, blacklistedTokens, now, token)

(* --------------------------- generateToken ---------------------------- *)

\* Variant: the generator may return a string it returned before.
generateTokenRepeats == Tokens

\* crypto.randomBytes(32).toString('hex'): 256 random bits, taken never to
\* repeat a string it returned before. The strings are opaque, so the k-th
\* string returned is named k; a client may still present a string before
\* the generator returns it.
generateToken == { k \in Tokens : k = Cardinality(DOMAIN minted) + 1 }

(* ------------------------- the handlers' bodies ----------------------- *)

\* Variant: the hwid of the request is not stored.
issueHandlerNoHwid(store, token, userId, hwid, clock) ==
    MapSet(store, token,
           [userId |-> userId, hwid |-> JsNull,
            expires |-> clock + TOKEN_EXPIRY, createdAt |-> clock])

\* POST /auth/token: the record stored under the new token.
issueHandler(store, token, userId, hwid, clock) ==
    MapSet(store, token,
           [userId |-> userId, hwid |-> JsOr(hwid, JsNull),
            expires |-> clock + TOKEN_EXPIRY, createdAt |-> clock])

\* Variant: the hwid of the old record is not carried forward.
refreshHandlerNoHwid(store, blacklist, oldToken, tokenData, newToken, clock) ==
    [blacklist |-> blacklist \cup {oldToken},
     store |-> MapSet(MapDelete(store, oldToken), newToken,
                      [userId |-> tokenData.userId, hwid |-> JsNull,
                       expires |-> clock + TOKEN_EXPIRY, createdAt |-> clock])]

\* Variant: the new record keeps the expiry of the old one.
refreshHandlerKeepsExpiry(store, blacklist, oldToken, tokenData, newToken, clock) ==
    [blacklist |-> blacklist \cup {oldToken},
     store |-> MapSet(MapDelete(store, oldToken), newToken,
                      [userId |-> tokenData.userId, hwid |-> tokenData.hwid,
                       expires |-> tokenData.expires, createdAt |-> clock])]

\* Variant: the old token is neither blacklisted nor deleted.
refreshHandlerKeepsOld(store, blacklist, oldToken, tokenData, newToken, clock) ==
    [blacklist |-> blacklist,
     store |-> MapSet(store, newToken,
                      [userId |-> tokenData.userId, hwid |-> tokenData.hwid,
                       expires |-> clock + TOKEN_EXPIRY, createdAt |-> clock])]

\* POST /auth/refresh behind the gate, statement by statement: the stores
\* after blacklistedTokens.add(oldToken), after tokenStore.delete(oldToken)
\* and after tokenStore.set(newToken, ...); tokenData is req.tokenData.
refreshSteps(store, blacklist, oldToken, tokenData, newToken, clock) ==
    LET s1 == [blacklist |-> blacklist \cup {oldToken}, store |-> store]
        s2 == [blacklist |-> s1.blacklist, store |-> MapDelete(s1.store, oldToken)]
        s3 == [blacklist |-> s2.blacklist,
               store |-> MapSet(s2.store, newToken,
                                [userId |-> tokenData.userId,
                                 hwid |-> tokenData.hwid,
                                 expires |-> clock + TOKEN_EXPIRY,
                                 createdAt |-> clock])]
    IN  <<s1, s2, s3>>

\* POST /auth/refresh behind the gate: the stores the handler leaves.
refreshHandler(store, blacklist, oldToken, tokenData, newToken, clock) ==
    refreshSteps(store, blacklist, oldToken, tokenData, newToken, clock)[3]

\* Variant: the token is deleted from the store but not blacklisted.
revokeHandlerNoBlacklist(store, blacklist, token) ==
    [blacklist |-> blacklist,
     store |-> MapDelete(store, token)]

\* Variant: the token is blacklisted but its record stays in the store.
revokeHandlerNoDelete(store, blacklist, token) ==
    [blacklist |-> blacklist \cup {token},
     store |-> store]

\* Variant: the record is marked expired instead of being blacklisted and
\* deleted.
revokeHandlerSoft(store, blacklist, token) ==
    [blacklist |-> blacklist,
     store |-> MapSet(store, token, [store[token] EXCEPT !.expires = -1])]

\* POST /auth/revoke behind the gate.
revokeHandler(store, blacklist, token) ==
    [blacklist |-> blacklist \cup {token},
     store |-> MapDelete(store, token)]

\* Variant: the sweep deletes a record from the instant it expires on.
cleanupAtExpiry(store, blacklist, clock) ==
    LET expired == { k \in DOMAIN store : clock >= store[k].expires }
    IN  [store |-> [k \in DOMAIN store \ expired |-> store[k]],
         blacklist |-> blacklist,
         cleaned |-> Cardinality(expired)]

\* Variant: the sweep counts every record it looks at.
cleanupCountsAll(store, blacklist, clock) ==
    LET expired == { k \in DOMAIN store : clock > store[k].expires }
    IN  [store |-> [k \in DOMAIN store \ expired |-> store[k]],
         blacklist |-> blacklist,
         cleaned |-> Cardinality(DOMAIN store)]

\* Variant: the sweep's comparison is inverted.
cleanupInverted(store, blacklist, clock) ==
    LET expired == { k \in DOMAIN store : clock < store[k].expires }
    IN  [store |-> [k \in DOMAIN store \ expired |-> store[k]],
         blacklist |-> blacklist,
         cleaned |-> Cardinality(expired)]

\* Variant: the sweep also drops the blacklist entries.
cleanupAlsoBlacklist(store, blacklist, clock) ==
    LET expired == { k \in DOMAIN store : clock > store[k].expires }
    IN  [store |-> [k \in DOMAIN store \ expired |-> store[k]],
         blacklist |-> {},
         cleaned |-> Cardinality(expired)]

\* One sweep of the store at clock value clock.
cleanupExpiredTokens(store, blacklist, clock) ==
    LET expired == { k \in DOMAIN store : clock > store[k].expires }
    IN  [store |-> [k \in DOMAIN store \ expired |-> store[k]],
         blacklist |-> blacklist,
         cleaned |-> Cardinality(expired)]

(* ------------------------------- Init --------------------------------- *)

Init ==
    /\ tokenStore = [k \in {} |-> 0]
    /\ blacklistedTokens = {}
    /\ now = 0
    /\ minted = [k \in {} |-> 0]
    /\ effects = [k \in Tokens |-> NoEffects]
    /\ res = NoRes

(* ------------------------------ actions ------------------------------- *)

\* The wall clock moves on between two callbacks.
Tick ==
    /\ \E later \in Instants : later > now /\ now' = later
    /\ res' = NoRes
    /\ UNCHANGED <<tokenStore, blacklistedTokens, minted, effects>>

\* POST /auth/token stopped by verifyApiKey (401) or authRateLimiter (429).
IssueRejected(status) ==
    /\ res' = [NoRes EXCEPT !.op = "token", !.status = status]
    /\ UNCHANGED <<tokenStore, blacklistedTokens, now, minted, effects>>

\* POST /auth/token past verifyApiKey and authRateLimiter.
IssueToken(userId, hwid) ==
    IF ~Truthy(userId) THEN
        /\ res' = [NoRes EXCEPT !.op = "token", !.status = 400,
                                !.userId = userId, !.hwid = hwid]
        /\ UNCHANGED <<tokenStore, blacklistedTokens, now, minted, effects>>
    ELSE
        \E token \in generateToken :
            /\ tokenStore' = issueHandler(tokenStore, token, userId, hwid, now)
            /\ minted' = MapSet(minted, token,
                                 [from |-> NoBearer, expires |-> now + TOKEN_EXPIRY])
            /\ res' = [NoRes EXCEPT !.op = "token", !.status = 200,
                                    !.newToken = token,
                                    !.userId = userId, !.hwid = hwid]
            /\ UNCHANGED <<blacklistedTokens, now, effects>>

\* A request stopped by verifyToken: its answer and the store it leaves.
Denied(op, token, outcome) ==
    /\ tokenStore' = verifyTokenStore(tokenStore, blacklistedTokens, now, token)
    /\ res' = [NoRes EXCEPT !.op = op, !.status = 401, !.outcome = outcome,
                            !.token = token, !.at = now]
    /\ UNCHANGED <<blacklistedTokens, now, minted, effects>>

\* POST /auth/refresh: verifyToken, then the handler. The handler reads the
\* clock again (later), at or after the middleware's reading.
Refresh(token) ==
    LET outcome == check(token) IN
    IF outcome # "Valid" THEN Denied("refresh", token, outcome)
    ELSE
        \E newToken \in generateToken, later \in Instants :
            /\ later >= now
            /\ LET after == refreshHandler(
                                verifyTokenStore(tokenStore, blacklistedTokens,
                                                 now, token),
                                blacklistedTokens, token, tokenStore[token],
                                newToken, later)
               IN  /\ tokenStore' = after.store
                   /\ blacklistedTokens' = after.blacklist
            /\ now' = later
            /\ minted' = MapSet(minted, newToken,
                                 [from |-> token, expires |-> later + TOKEN_EXPIRY])
            /\ effects' = [effects EXCEPT ![token].refreshed = @ + 1]
            /\ res' = [NoRes EXCEPT !.op = "refresh", !.status = 200,
                                    !.outcome = outcome, !.token = token,
                                    !.newToken = newToken, !.at = now]

\* Variant: the revoke handler is not behind verifyToken; any bearer token
\* is blacklisted.
RevokeUngated(token) ==
    IF token = NoBearer THEN Denied("revoke", token, "NoBearer")
    ELSE
        /\ LET after == revokeHandler(tokenStore, blacklistedTokens, token)
           IN  /\ tokenStore' = after.store
               /\ blacklistedTokens' = after.blacklist
        /\ effects' = [effects EXCEPT ![token].revoked = @ + 1]
        /\ res' = [NoRes EXCEPT !.op = "revoke", !.status = 200,
                                !.outcome = "Valid", !.token = token,
                                !.at = now]
        /\ UNCHANGED <<now, minted>>

\* POST /auth/revoke: verifyToken, then the handler.
Revoke(token) ==
    LET outcome == check(token) IN
    IF outcome # "Valid" THEN Denied("revoke", token, outcome)
    ELSE
        /\ LET after == revokeHandler(
                            verifyTokenStore(tokenStore, blacklistedTokens,
                                             now, token),
                            blacklistedTokens, token)
           IN  /\ tokenStore' = after.store
               /\ blacklistedTokens' = after.blacklist
        /\ effects' = [effects EXCEPT ![token].revoked = @ + 1]
        /\ res' = [NoRes EXCEPT !.op = "revoke", !.status = 200,
                                !.outcome = outcome, !.token = token,
                                !.at = now]
        /\ UNCHANGED <<now, minted>>

\* POST /webhook/discord: verifyToken, webhookRateLimiter, then the handler,
\* which touches neither store; status is the answer of whatever stopped or
\* completed the request: 429 webhookRateLimiter, 500 no webhook URL or
\* Discord's refusal, 400 neither content nor embeds, 200 forwarded. The
\* payload is sent (axios.post) before a 200 and before Discord's refusal.
Webhook(token, status) ==
    LET outcome == check(token) IN
    IF outcome # "Valid" THEN Denied("webhook", token, outcome)
    ELSE
        /\ \E sent \in BOOLEAN :
              /\ sent => status \in {200, 500}
              /\ status = 200 => sent
              /\ res' = [NoRes EXCEPT !.op = "webhook", !.status = status,
                                      !.outcome = outcome, !.token = token,
                                      !.at = now, !.forwarded = sent]
        /\ tokenStore' = verifyTokenStore(tokenStore, blacklistedTokens, now, token)
        /\ UNCHANGED <<blacklistedTokens, now, minted, effects>>

\* setInterval(cleanupExpiredTokens, 60000): one run of the sweep.
Cleanup ==
    /\ LET after == cleanupExpiredTokens(tokenStore, blacklistedTokens, now)
       IN  /\ tokenStore' = after.store
           /\ blacklistedTokens' = after.blacklist
           /\ res' = [NoRes EXCEPT !.op = "cleanup", !.cleaned = after.cleaned]
    /\ UNCHANGED <<now, minted, effects>>

Next ==
    \/ Tick
    \/ \E status \in {401, 429} : IssueRejected(status)
    \/ \E userId \in UserIdInputs, hwid \in HwidInputs : IssueToken(userId, hwid)
    \/ \E token \in Presented : Refresh(token)
    \/ \E token \in Presented : Revoke(token)
    \/ \E token \in Presented, status \in {200, 400, 429, 500} : Webhook(token, status)
    \/ Cleanup

Spec == Init /\ [][Next]_vars

\* setInterval keeps scheduling the sweep: a sweep that has something to
\* delete is not postponed forever. Requests are under no such obligation.
FairSpec == Spec /\ WF_vars(Cleanup)

(* ------------------------------- claims ------------------------------- *)

\* The requests that go through verifyToken.
Gated == {"refresh", "revoke", "webhook"}

\* A record as /auth/token would store it at clock value clock.
SampleRecord(expires) ==
    [userId |-> "user123", hwid |-> JsNull, expires |-> expires,
     createdAt |-> expires - TOKEN_EXPIRY]

\* C1: a token in the Blacklist is answered Revoked and never Valid, whether
\* or not the Token Store holds a record under it: the gate's decision is
\* Revoked in the current store and in the store with a live record put
\* under the token, and every gated request carrying a token that is already
\* blacklisted is answered Revoked.
C1_BlacklistedIsRevoked ==
    /\ [](\A t \in blacklistedTokens :
            /\ check(t) = "Revoked"
            /\ verifyTokenOutcome(
                   MapSet(tokenStore, t, SampleRecord(now + TOKEN_EXPIRY)),
                   blacklistedTokens, now, t) = "Revoked")
    /\ [][(res'.op \in Gated /\ res'.token \in blacklistedTokens)
              => (res'.outcome = "Revoked" /\ res'.status = 401)]_vars

C1_Witness ==
    /\ res.op = "webhook"
    /\ res.token \in blacklistedTokens
    /\ res.outcome = "Revoked"

\* C2: the gate never answers Valid for a token whose expiry has passed,
\* before or after a sweep has removed the record: its decision is not Valid
\* in any state with now past the token's expiry, and a gated request
\* answered Valid read a clock value not past it; and a record put in the
\* store with an expiry already in the past is answered Expired.
C2_ExpiredNeverValid ==
    /\ \A t \in DOMAIN minted :
           now > minted[t].expires => check(t) \in {"Expired", "Unknown", "Revoked"}
    /\ \A t \in DOMAIN tokenStore :
           /\ tokenStore[t].expires = minted[t].expires
           /\ (now > tokenStore[t].expires /\ t \notin blacklistedTokens)
                  => check(t) = "Expired"
    /\ (res.op \in Gated /\ res.outcome = "Valid")
           => res.at <= minted[res.token].expires
    /\ \A t \in Tokens \ blacklistedTokens :
           verifyTokenOutcome(MapSet(tokenStore, t, SampleRecord(now - 1)),
                              blacklistedTokens, now, t) = "Expired"

C2_Witness ==
    /\ res.op = "webhook"
    /\ res.outcome = "Expired"
    /\ now > minted[res.token].expires

\* C3 as stated: right after a successful issuance the gate answers Valid for
\* the returned token and the record holds exactly the userId and hwid of the
\* request (an omitted hwid being held as null).
C3_IssuedExactValues ==
    (res.op = "token" /\ res.status = 200) =>
        /\ check(res.newToken) = "Valid"
        /\ tokenStore[res.newToken].userId = res.userId
        /\ tokenStore[res.newToken].hwid =
               (IF res.hwid = JsUndefined THEN JsNull ELSE res.hwid)

\* C3 amended: right after a successful issuance the gate answers Valid for
\* the returned token, the record holds the userId of the request, and it
\* holds the hwid of the request when that is non-empty and null when the
\* hwid is omitted or empty.
C3_IssuedValid ==
    (res.op = "token" /\ res.status = 200) =>
        /\ Truthy(res.userId)
        /\ check(res.newToken) = "Valid"
        /\ tokenStore[res.newToken].userId = res.userId
        /\ tokenStore[res.newToken].hwid =
               (IF res.hwid \in {"", JsUndefined} THEN JsNull ELSE res.hwid)

C3_Witness ==
    /\ res.op = "token" /\ res.status = 200
    /\ res.hwid = "hw1"
    /\ tokenStore[res.newToken].hwid = "hw1"

\* The gate's decision for a token in the state after a step.
checkAfter(token) == verifyTokenOutcome(tokenStore', blacklistedTokens', now', token)

\* C4: once a revoke of a token has succeeded, the gate answers Revoked for
\* it in every later state, and every gated request carrying it, other than
\* that one revoke, is answered Revoked.
C4_RevokedForever ==
    \A t \in Tokens :
        effects[t].revoked > 0 =>
            /\ check(t) = "Revoked"
            /\ (res.op \in Gated /\ res.token = t)
                   => \/ res.outcome = "Revoked" /\ res.status = 401
                      \/ /\ res.op = "revoke" /\ res.status = 200
                         /\ effects[t].revoked = 1

C4_Witness ==
    \E t \in Tokens :
        /\ effects[t].revoked > 0
        /\ now > minted[t].expires
        /\ res.op = "refresh" /\ res.token = t /\ res.outcome = "Revoked"

\* C5: a refresh that passes the gate returns a token different from the one
\* presented; in the state it leaves, the gate answers Revoked for the old
\* token and Valid for the new one, whose record holds the userId and hwid
\* the old record held before the refresh.
C5_RefreshSupersedes ==
    [][(res'.op = "refresh" /\ res'.status = 200) =>
          LET old == res'.token
              new == res'.newToken
          IN  /\ new # old
              /\ checkAfter(old) = "Revoked"
              /\ checkAfter(new) = "Valid"
              /\ tokenStore'[new].userId = tokenStore[old].userId
              /\ tokenStore'[new].hwid = tokenStore[old].hwid]_vars

C5_Witness ==
    /\ res.op = "refresh" /\ res.status = 200
    /\ check(res.token) = "Revoked"
    /\ check(res.newToken) = "Valid"
    /\ tokenStore[res.newToken].userId = "user123"
    /\ tokenStore[res.newToken].hwid = "hw1"

\* C6: a refresh is one step of the event loop, and of the old and the new
\* token exactly one passes the gate in the state before it (the old) and
\* exactly one in the state after it (the new); and after no statement of
\* the handler do both pass: the old token is blacklisted before the new one
\* is stored.
C6_RefreshAtomic ==
    [][(res'.op = "refresh" /\ res'.status = 200) =>
          LET old == res'.token
              new == res'.newToken
              steps == refreshSteps(tokenStore, blacklistedTokens, old,
                                    tokenStore[old], new, now')
          IN  /\ check(old) = "Valid" /\ check(new) # "Valid"
              /\ checkAfter(old) # "Valid" /\ checkAfter(new) = "Valid"
              /\ \A i \in DOMAIN steps, clock \in {now, now'} :
                    ~ /\ verifyTokenOutcome(steps[i].store, steps[i].blacklist,
                                            clock, old) = "Valid"
                      /\ verifyTokenOutcome(steps[i].store, steps[i].blacklist,
                                            clock, new) = "Valid"]_vars

C6_Witness ==
    /\ res.op = "refresh" /\ res.status = 200
    /\ res.token \in blacklistedTokens
    /\ res.newToken \in DOMAIN tokenStore
    /\ now > res.at

\* The tokens refreshed from token t.
Descendants(t) == { k \in DOMAIN minted : minted[k].from = t }

\* C7: of the refresh and revoke requests carrying one token at most one
\* passes the gate and takes effect, every other one after it is answered
\* Revoked, and at most one token is ever refreshed from it.
C7_OneWinner ==
    \A t \in Tokens :
        /\ effects[t].refreshed + effects[t].revoked <= 1
        /\ Cardinality(Descendants(t)) <= effects[t].refreshed
        /\ (/\ res.op \in {"refresh", "revoke"} /\ res.token = t
            /\ effects[t].refreshed + effects[t].revoked > 0)
               => \/ res.outcome = "Revoked" /\ res.status = 401
                  \/ /\ res.outcome = "Valid" /\ res.status = 200
                     /\ effects[t].refreshed + effects[t].revoked = 1
                     /\ t \in blacklistedTokens

C7_Witness ==
    \E t \in Tokens :
        /\ effects[t].refreshed = 1
        /\ res.op = "revoke" /\ res.token = t
        /\ res.outcome = "Revoked"
        /\ Cardinality(Descendants(t)) = 1

\* A gated request that went no further than the gate's check: a webhook
\* request, or a refresh or revoke request the gate denied.
IsCheck(r) == r.op \in Gated /\ (r.op = "webhook" \/ r.outcome # "Valid")

\* C8 as stated: two consecutive checks of one token, with nothing between
\* them, get the same outcome.
C8_CheckRepeats ==
    [][(IsCheck(res) /\ res'.op \in Gated /\ res'.token = res.token)
          => res'.outcome = res.outcome]_vars

\* C8 amended: two consecutive checks of one token, with nothing between
\* them, get the same outcome, except that after Expired, which deletes the
\* record, the second check gets Unknown.
C8_CheckRepeatsButExpired ==
    [][(IsCheck(res) /\ res'.op \in Gated /\ res'.token = res.token)
          => res'.outcome =
                 (IF res.outcome = "Expired" THEN "Unknown" ELSE res.outcome)]_vars

\* The second of two consecutive checks is due after one answered Expired.
C8_Witness ==
    /\ res.op = "webhook" /\ res.outcome = "Expired"
    /\ res.at = now
    /\ check(res.token) = "Unknown"

C10_BlacklistGrows ==
    [][blacklistedTokens \subseteq blacklistedTokens']_vars

C10_Witness ==
    /\ res.op = "cleanup" /\ res.cleaned > 0
    /\ Cardinality(blacklistedTokens) = 1

\* The tokens generated so far whose record is no longer in the Token Store.
Gone == DOMAIN minted \ DOMAIN tokenStore

\* C11: a token that has left the Token Store (by refresh, revoke, the gate's
\* deletion or the sweep) is never in the store again and is never answered
\* Valid again, and a token in the store keeps the record it was stored
\* with: no step binds it to another record.
C11_Terminal ==
    /\ [](\A t \in Gone : check(t) \in {"Unknown", "Revoked"})
    /\ [][/\ \A t \in Gone : t \notin DOMAIN tokenStore' /\ checkAfter(t) # "Valid"
          /\ \A t \in DOMAIN tokenStore \cap DOMAIN tokenStore' :
                 tokenStore'[t] = tokenStore[t]
          /\ DOMAIN minted \subseteq DOMAIN minted'
          /\ (res'.op \in Gated /\ res'.token \in Gone) => res'.outcome # "Valid"
         ]_vars

\* Every way out of the store has been taken by some token and a further
\* token has been generated since.
C11_Witness ==
    /\ Gone # {}
    /\ DOMAIN tokenStore # {}
    /\ \E t \in Gone : t \notin blacklistedTokens /\ now > minted[t].expires
    /\ res.op = "token" /\ res.status = 200

\* C12: a POST /auth/token that reaches the handler with the userId missing
\* or empty is answered 400, returns no token, generates none and leaves the
\* Token Store and the Blacklist as they were.
C12_InvalidInput ==
    [][(/\ res'.op = "token" /\ res'.status \notin {401, 429}
        /\ res'.userId \in {"", JsUndefined})
          => /\ res'.status = 400
             /\ res'.newToken = NoBearer
             /\ minted' = minted
             /\ tokenStore' = tokenStore
             /\ blacklistedTokens' = blacklistedTokens]_vars

\* An empty userId refused while the stores are not empty.
C12_Witness ==
    /\ res.op = "token" /\ res.status = 400 /\ res.userId = ""
    /\ DOMAIN tokenStore # {}
    /\ blacklistedTokens # {}

\* Token t has a record in the store whose expiry has passed.
ExpiredIn(t) == t \in DOMAIN tokenStore /\ now > tokenStore[t].expires

\* C13: with the sweep run again and again, every record whose expiry has
\* passed is eventually absent from the Token Store, whether or not a
\* request presents its token again: an expired record stays expired until
\* it leaves the store, and again and again the store holds no expired
\* record.
C13_EventuallyReclaimed ==
    /\ [][\A t \in Tokens :
              ExpiredIn(t) => (t \notin DOMAIN tokenStore' \/ ExpiredIn(t)')]_vars
    /\ []<>(\A t \in Tokens : ~ExpiredIn(t))

\* A sweep has removed an expired record that no request had presented.
C13_Witness ==
    /\ res.op = "cleanup" /\ res.cleaned > 0
    /\ \E t \in Gone : t \notin blacklistedTokens /\ now > minted[t].expires

\* C14: the gate decides in the order blacklist, store, expiry. A gated
\* request is answered Revoked when its token is blacklisted; else Unknown
\* when the store has no record; else Expired, with the record deleted, when
\* now is past the record's expiry; else Valid, the record being kept. So a
\* token both revoked and past its expiry is answered Revoked, with its
\* record gone or (put back for the test) still stored.
C14_GateOrder ==
    /\ [](\A t \in blacklistedTokens :
            /\ now > minted[t].expires => check(t) = "Revoked"
            /\ verifyTokenOutcome(MapSet(tokenStore, t, SampleRecord(now - 1)),
                                  blacklistedTokens, now, t) = "Revoked")
    /\ [][(res'.op \in Gated /\ res'.token # NoBearer) =>
            LET t == res'.token IN
            IF t \in blacklistedTokens
                THEN res'.outcome = "Revoked"
            ELSE IF t \notin DOMAIN tokenStore
                THEN res'.outcome = "Unknown" /\ tokenStore' = tokenStore
            ELSE IF now > tokenStore[t].expires
                THEN /\ res'.outcome = "Expired"
                     /\ tokenStore' = MapDelete(tokenStore, t)
            ELSE /\ res'.outcome = "Valid"
                 /\ res'.op = "webhook" => tokenStore' = tokenStore
         ]_vars

\* A revoked token presented after its expiry has passed.
C14_Witness ==
    /\ res.op \in Gated /\ res.outcome = "Revoked"
    /\ effects[res.token].revoked = 1
    /\ now > minted[res.token].expires

\* The step that was taken is a refresh or a revoke that passed the gate.
LifecycleStep == res'.op \in {"refresh", "revoke"} /\ res'.status = 200

\* Records are inserted only by a successful issue or refresh, and Blacklist
\* entries are added only by a successful refresh or revoke.
WritersOnly ==
    /\ ~(DOMAIN tokenStore' \subseteq DOMAIN tokenStore)
           => (res'.op \in {"token", "refresh"} /\ res'.status = 200)
    /\ blacklistedTokens' # blacklistedTokens => LifecycleStep

\* C15 as stated: a check leaves the Token Store and the Blacklist unchanged;
\* inserts and Blacklist additions come only from issue, refresh and revoke,
\* and store deletions only from those and the sweep.
C15_GateOnlyReads ==
    [][/\ IsCheck(res') =>
              (tokenStore' = tokenStore /\ blacklistedTokens' = blacklistedTokens)
       /\ WritersOnly
       /\ ~(DOMAIN tokenStore \subseteq DOMAIN tokenStore')
              => (LifecycleStep \/ res'.op = "cleanup")]_vars

\* C15 amended: a check leaves the Blacklist unchanged, and leaves the Token
\* Store unchanged unless it answers Expired, when it deletes the record of
\* the presented token and nothing else; inserts and Blacklist additions come
\* only from issue, refresh and revoke, and store deletions only from those,
\* the sweep and a check answering Expired.
C15_GateDeletesOnlyExpired ==
    [][/\ IsCheck(res') =>
              /\ blacklistedTokens' = blacklistedTokens
              /\ tokenStore' = (IF res'.outcome = "Expired"
                                THEN MapDelete(tokenStore, res'.token)
                                ELSE tokenStore)
       /\ WritersOnly
       /\ ~(DOMAIN tokenStore \subseteq DOMAIN tokenStore')
              => \/ LifecycleStep
                 \/ res'.op = "cleanup"
                 \/ res'.op \in Gated /\ res'.outcome = "Expired"]_vars

\* A check answered Expired has deleted the record while another is kept.
C15_Witness ==
    /\ res.op = "webhook" /\ res.outcome = "Expired"
    /\ res.token \in Gone
    /\ DOMAIN tokenStore # {}

\* C16: every record in the Token Store has expires = createdAt + 3600000;
\* the record a refresh stores is created at the clock value the refresh
\* handler read and expires 3600000 later, whatever the old record's expiry
\* was, as does the record an issue stores; and no step changes a field of a
\* record that stays in the store.
C16_FixedLifetime ==
    /\ [](/\ \A t \in DOMAIN tokenStore :
                 tokenStore[t].expires = tokenStore[t].createdAt + TOKEN_EXPIRY
          /\ (res.op \in {"token", "refresh"} /\ res.status = 200) =>
                 /\ tokenStore[res.newToken].createdAt = now
                 /\ tokenStore[res.newToken].expires = now + 3600000)
    /\ [][\A t \in DOMAIN tokenStore \cap DOMAIN tokenStore' :
              tokenStore'[t] = tokenStore[t]]_vars

\* A refresh later than the issuance: the new expiry is past the old one.
C16_Witness ==
    /\ res.op = "refresh" /\ res.status = 200
    /\ tokenStore[res.newToken].expires > minted[res.token].expires
    /\ tokenStore[res.newToken].expires = now + TOKEN_EXPIRY

\* C17: a sweep at clock value now deletes exactly the records with
\* now > expires, so that none is left after it; the count it reports is the
\* number of records it removed; the records it keeps and the Blacklist are
\* as before.
C17_SweepExact ==
    [][res'.op = "cleanup" =>
          LET due == { t \in DOMAIN tokenStore : now > tokenStore[t].expires }
          IN  /\ DOMAIN tokenStore' = DOMAIN tokenStore \ due
              /\ \A t \in DOMAIN tokenStore' :
                     /\ tokenStore'[t] = tokenStore[t]
                     /\ ~(now' > tokenStore'[t].expires)
              /\ res'.cleaned = Cardinality(DOMAIN tokenStore \ DOMAIN tokenStore')
              /\ res'.cleaned = Cardinality(due)
              /\ blacklistedTokens' = blacklistedTokens
              /\ now' = now]_vars

\* A sweep that removed one record and kept one that expires at this instant.
C17_Witness ==
    /\ res.op = "cleanup" /\ res.cleaned = 1
    /\ \E t \in DOMAIN tokenStore : tokenStore[t].expires = now
    /\ blacklistedTokens = {}

\* The tokens a refresh or revoke has taken out of the store.
Superseded == { t \in Tokens : effects[t].refreshed + effects[t].revoked > 0 }

\* C18: however sweeps and requests alternate, a record removed by a refresh
\* or a revoke is in the store in no later state; a sweep puts no record in
\* the store; what a sweep counts are records that were in the store before
\* it and are not after it, one count each; and a record that has left the
\* store is not there for a later sweep to delete or count again.
C18_SweepInterleaving ==
    /\ [](Superseded \cap DOMAIN tokenStore = {})
    /\ [][/\ \A t \in Gone : t \notin DOMAIN tokenStore'
          /\ res'.op = "cleanup" =>
                /\ DOMAIN tokenStore' \subseteq DOMAIN tokenStore
                /\ Superseded' = Superseded
                /\ res'.cleaned = Cardinality(DOMAIN tokenStore \ DOMAIN tokenStore')
                /\ Gone' = Gone \cup (DOMAIN tokenStore \ DOMAIN tokenStore')
         ]_vars

\* A sweep that reclaimed a record after a refresh had removed another.
C18_Witness ==
    /\ res.op = "cleanup" /\ res.cleaned = 1
    /\ Superseded # {}
    /\ Cardinality(Gone) = 2

\* Token t is in the store, not blacklisted and not past its expiry.
Live(t) ==
    /\ t \in DOMAIN tokenStore
    /\ t \notin blacklistedTokens
    /\ ~(now > tokenStore[t].expires)

\* C19: a refresh, revoke or webhook request whose token is not live when it
\* arrives (unknown, revoked, expired, or no bearer token) is answered 401:
\* it adds nothing to the Blacklist, creates no record, generates no token
\* and forwards no payload; so every refresh or revoke that took effect and
\* every payload forwarded came with a token that was live.
C19_OnlyValidTakesEffect ==
    [][(res'.op \in Gated /\ ~Live(res'.token)) =>
          /\ res'.status = 401 /\ res'.outcome # "Valid"
          /\ blacklistedTokens' = blacklistedTokens
          /\ DOMAIN tokenStore' \subseteq DOMAIN tokenStore
          /\ minted' = minted /\ effects' = effects
          /\ res'.newToken = NoBearer
          /\ ~res'.forwarded]_vars

\* A webhook request with an expired token was denied while it could have
\* been forwarded had the token been live.
C19_Witness ==
    /\ res.op = "webhook" /\ res.status = 401 /\ res.outcome = "Expired"
    /\ ~res.forwarded
    /\ \E t \in Tokens : Live(t)

\* C20: no token is at once a key of the Token Store and a member of the
\* Blacklist.
C20_Disjoint == DOMAIN tokenStore \cap blacklistedTokens = {}

\* Both stores are in use.
C20_Witness ==
    /\ DOMAIN tokenStore # {}
    /\ blacklistedTokens # {}
    /\ res.op = "revoke" /\ res.status = 200

\* C21: the Blacklist holds only tokens that were generated before and were
\* live (in the store and not past their expiry at the clock value the gate
\* read) when the one refresh or revoke that blacklisted them passed the
\* gate; a refresh or revoke request carrying a token that was never
\* generated, or one whose expiry has passed, adds nothing to the Blacklist.
C21_BlacklistOnlyLive ==
    /\ [](\A t \in blacklistedTokens :
            /\ t \in DOMAIN minted
            /\ effects[t].refreshed + effects[t].revoked = 1)
    /\ [][/\ \A t \in blacklistedTokens' \ blacklistedTokens :
                /\ LifecycleStep /\ res'.token = t
                /\ t \in DOMAIN minted
                /\ Live(t)
                /\ res'.at = now /\ ~(res'.at > minted[t].expires)
          /\ (/\ res'.op \in {"refresh", "revoke"}
              /\ \/ res'.token \notin DOMAIN minted
                 \/ now > minted[res'.token].expires)
                => /\ blacklistedTokens' = blacklistedTokens
                   /\ res'.status = 401
                   /\ res'.outcome \in {"NoBearer", "Unknown", "Expired", "Revoked"}
         ]_vars

\* A revoke of an expired token was denied and left the Blacklist, which
\* holds another token, as it was.
C21_Witness ==
    /\ res.op = "revoke" /\ res.outcome = "Expired"
    /\ res.token \notin blacklistedTokens
    /\ blacklistedTokens # {}
    /\ now > minted[res.token].expires

\* The gate's decision for token t at clock value clock after a sweep of the
\* current store at that clock value.
checkSwept(clock, t) ==
    LET swept == cleanupExpiredTokens(tokenStore, blacklistedTokens, clock)
    IN  verifyTokenOutcome(swept.store, swept.blacklist, clock, t)

\* C22: the sweep and the gate apply the same strict test now > expires. At
\* every clock value the records a sweep would remove are exactly those the
\* gate would answer Expired for (were their token not blacklisted); a
\* record with now = expires is kept by the sweep and answered Valid before
\* and after it; and a sweep changes the gate's answer for no token except
\* from Expired to Unknown, so never from Valid to a denial.
C22_SameStrictTest ==
    /\ [](\A clock \in Instants :
            LET swept == cleanupExpiredTokens(tokenStore, blacklistedTokens, clock)
            IN  /\ DOMAIN tokenStore \ DOMAIN swept.store =
                       { t \in DOMAIN tokenStore :
                             verifyTokenOutcome(tokenStore, {}, clock, t) = "Expired" }
                /\ \A t \in DOMAIN tokenStore :
                       tokenStore[t].expires = clock =>
                           /\ t \in DOMAIN swept.store
                           /\ verifyTokenOutcome(tokenStore, blacklistedTokens,
                                                 clock, t) = "Valid"
                           /\ checkSwept(clock, t) = "Valid"
                /\ \A t \in Tokens :
                       LET before == verifyTokenOutcome(tokenStore, blacklistedTokens,
                                                        clock, t)
                       IN  checkSwept(clock, t) =
                               (IF before = "Expired" THEN "Unknown" ELSE before))
    /\ [][res'.op = "cleanup" =>
            \A t \in Tokens :
                /\ check(t) = "Valid" =>
                       (t \in DOMAIN tokenStore' /\ checkAfter(t) = "Valid")
                /\ checkAfter(t) =
                       (IF check(t) = "Expired" THEN "Unknown" ELSE check(t))
         ]_vars

\* A sweep has removed an expired record, answered Unknown now, and kept a
\* record that expires at this very instant, answered Valid.
C22_Witness ==
    /\ res.op = "cleanup" /\ res.cleaned > 0
    /\ \E t \in DOMAIN tokenStore :
           tokenStore[t].expires = now /\ check(t) = "Valid"
    /\ \E t \in Gone :
           /\ t \notin blacklistedTokens
           /\ now > minted[t].expires
           /\ check(t) = "Unknown"

====
